---- MODULE Spec2Model ----
(***************************************************************************)
(* Invoice lifecycle and recurring auto-send of endurohard/pack.           *)
(*                                                                         *)
(* The server (server.js) owns one InvoiceDatabase `db`; the               *)
(* AutoSendScheduler constructs a second InvoiceDatabase of its own, which *)
(* loads the same JSON file once.  Both are modelled: the server's array   *)
(* of invoice objects as `heap` (the objects) and `db` (the array of       *)
(* references), the scheduler's array as `schedDb`, the JSON file as       *)
(* `file`.                                                                 *)
(*                                                                         *)
(* Time is modelled at a resolution of one day: a clock reading is a day   *)
(* number counted from 1 January of BaseYear, the local time zone is UTC,  *)
(* and the time of day (which Date.setMonth preserves) is left out.        *)
(***************************************************************************)
EXTENDS Integers, Sequences, FiniteSets, TLC

VARIABLES
  now,          \* the clock: what Date.now() / new Date() reads
  heap,         \* server.js: the invoice objects ever allocated by db
  db,           \* server.js: db.invoices, a sequence of references into heap
  file,         \* data/invoices.json, as last written by saveData
  counter,      \* data/invoice-counter.json: counter.current
  issued,       \* the numbers getNextInvoiceNumber has returned so far
  retired,      \* ids of the sources a completed duplication disarmed and
                \* that were not armed again or deleted since
  pending,      \* payment requests suspended in `await createInvoice`
  resp,         \* the last response sent by PUT /api/invoices/:id/payment
  scheduler,    \* server.js: autoSendScheduler !== null
  schedDb,      \* AutoSendScheduler.db.invoices
  isProcessing, \* AutoSendScheduler.isProcessing
  intervalId,   \* AutoSendScheduler.intervalId !== null
  intervals,    \* live setInterval(checkAndSend, checkInterval) timers
  timeouts,     \* pending setTimeout(checkAndSend, 60s) timers of start()
  passes,       \* the activations of checkAndSend that are past the guard
  lastPass,     \* summary of the activation that ended last, until the next starts
  status        \* the last answer of GET /api/auto-send/status

vars == <<now, heap, db, file, counter, issued, retired, pending, resp,
          scheduler, schedDb, isProcessing, intervalId, intervals, timeouts,
          passes, lastPass, status>>

apiVars == <<heap, db, counter, issued, retired, pending, resp>>
schedVars == <<scheduler, schedDb, isProcessing, intervalId, intervals,
               timeouts, passes, lastPass, status>>

----------------------------------------------------------------------------
(* Bounds *)

MaxInvoices == 2      \* invoice objects the server allocates in one run
MaxTicks == 1         \* days the clock advances
MaxPending == 1       \* payment requests suspended at the same time
MaxCounter == 2       \* invoice numbers handed out
MaxFile == 3          \* invoices in the file the scheduler loads
MaxStarts == 2        \* timers of start() that are pending at the same time
\* BaseYear (below): the year in which the clock starts

----------------------------------------------------------------------------
(* Calendar: the part of ECMAScript Date that setMonth and toISOString use *)

BaseYear == 2024

IsLeap(y) == (y % 4 = 0 /\ y % 100 # 0) \/ y % 400 = 0

\* m is a zero-based month, as in Date.getMonth()
DaysInMonth(y, m) ==
  IF m = 1 THEN (IF IsLeap(y) THEN 29 ELSE 28)
  ELSE IF m \in {3, 5, 8, 10} THEN 30 ELSE 31

DaysInYear(y) == IF IsLeap(y) THEN 366 ELSE 365

RECURSIVE DayFromYear(_)
DayFromYear(y) == IF y <= BaseYear THEN 0
                  ELSE DayFromYear(y - 1) + DaysInYear(y - 1)

RECURSIVE DaysBeforeMonth(_, _)
DaysBeforeMonth(y, m) == IF m = 0 THEN 0
                         ELSE DaysBeforeMonth(y, m - 1) + DaysInMonth(y, m - 1)

\* ECMAScript MakeDay(year, month, date): month may be 12 or more, date may
\* exceed the length of the month; the excess runs on into what follows.
MakeDay(y, m, d) ==
  LET ym == y + (m \div 12)
      mn == m % 12
  IN  DayFromYear(ym) + DaysBeforeMonth(ym, mn) + d - 1

RECURSIVE YearFromTime(_, _)
YearFromTime(t, y) == IF t < DayFromYear(y + 1) THEN y
                      ELSE YearFromTime(t, y + 1)

RECURSIVE MonthFromTime(_, _, _)
MonthFromTime(t, y, m) ==
  IF t < DayFromYear(y) + DaysBeforeMonth(y, m) + DaysInMonth(y, m) THEN m
  ELSE MonthFromTime(t, y, m + 1)

getFullYear(t) == YearFromTime(t, BaseYear)
getMonth(t) == MonthFromTime(t, getFullYear(t), 0)
getDate(t) ==
  t - DayFromYear(getFullYear(t))
    - DaysBeforeMonth(getFullYear(t), getMonth(t)) + 1

\* Date.prototype.setMonth(m): the year and the day of the month are kept
setMonth(t, m) == MakeDay(getFullYear(t), m, getDate(t))

\* An ISO string is modelled by its fields <<year, month 1..12, day>>
NULL == << >>
toISOString(t) == <<getFullYear(t), getMonth(t) + 1, getDate(t)>>
\* new Date(isoString)
ParseDate(s) == MakeDay(s[1], s[2] - 1, s[3])

\* the clock starts on 31 January of BaseYear
StartDay == MakeDay(BaseYear, 0, 31)

----------------------------------------------------------------------------
(* Requests: the bodies and parameters the endpoints are called with *)

Item(name, quantity, price) ==
  [name |-> name, unit |-> "pc", quantity |-> quantity, price |-> price]

\* JavaScript null and undefined for the discount field
NullDiscount == [type |-> "null", value |-> 0]
UndefinedDiscount == [type |-> "undefined", value |-> 0]

\* Bodies of POST /api/invoice and PUT /api/invoices/:id that pass the
\* validation of the handler (number, client, items and payment present).
Bodies ==
  { [invoiceNumber |-> "101", clientName |-> "Alfa",
     clientPhone |-> <<"8", "9", "1">>,
     items |-> <<Item("rent", 2, 1000), Item("line", 5, 500)>>,
     discount |-> [type |-> "percent", value |-> 10],
     payment |-> "card"],
    [invoiceNumber |-> "102", clientName |-> "Beta",
     clientPhone |-> << >>,
     items |-> <<Item("site", 1, 3000)>>,
     discount |-> UndefinedDiscount,
     payment |-> "sbp"] }

\* item lists and discounts of request bodies: the two-item list of Bodies
\* under no discount, percent discounts (one larger than the subtotal), a
\* fixed discount and a type the handlers do not know
AmountItems == { body.items : body \in { b \in Bodies : Len(b.items) > 1 } }

AmountDiscounts ==
  { UndefinedDiscount,
    [type |-> "percent", value |-> 10],
    [type |-> "percent", value |-> 56],
    [type |-> "percent", value |-> 150],
    [type |-> "fixed", value |-> 1000],
    [type |-> "bonus", value |-> 10] }

AmountBodies ==
  { [invoiceNumber |-> "101", clientName |-> "Alfa",
     clientPhone |-> <<"8", "9", "1">>,
     items |-> items, discount |-> discount, payment |-> "card"] :
    items \in AmountItems, discount \in AmountDiscounts }

\* every body a request of the model carries
RequestBodies == Bodies \cup AmountBodies

\* nextSendDate values of POST /api/invoices/:id/auto-send
DateInputs == { toISOString(MakeDay(BaseYear, 0, 1)) }

\* Date.now().toString()
IdOf(t) == ToString(t)

\* :id parameters: the ids the clock can produce, one of them never used
RequestIds == { IdOf(t) : t \in StartDay..(StartDay + MaxTicks) } \cup {"0"}

----------------------------------------------------------------------------
(* InvoiceDatabase (src/src/invoiceDatabase.js), over an array `invoices` *)

Falsy(discount) == discount.type \in {"null", "undefined"}

addInvoice(invoices, invoiceData, t) ==
  Append(invoices,
    [id |-> IdOf(t),
     invoiceNumber |-> invoiceData.invoiceNumber,
     amount |-> invoiceData.amount,
     items |-> invoiceData.items,
     discount |-> IF Falsy(invoiceData.discount) THEN NullDiscount
                  ELSE invoiceData.discount,
     client |-> invoiceData.client,
     clientPhone |-> invoiceData.clientPhone,
     payment |-> invoiceData.payment,
     createdAt |-> toISOString(t),
     paid |-> FALSE,
     paidAt |-> NULL,
     nextSendDate |-> invoiceData.nextSendDate,
     autoSendEnabled |-> invoiceData.autoSendEnabled,
     lastSentAt |-> NULL,
     expenses |-> << >>])

\* Array.prototype.find by id, as the index of the first match, 0 for none
getInvoiceById(invoices, id) ==
  IF \E k \in 1..Len(invoices) : invoices[k].id = id
  THEN CHOOSE k \in 1..Len(invoices) :
         /\ invoices[k].id = id
         /\ \A j \in 1..(k - 1) : invoices[j].id # id
  ELSE 0

markAsPaid(invoices, id, t) ==
  LET k == getInvoiceById(invoices, id)
  IN  IF k = 0 THEN invoices
      ELSE [invoices EXCEPT ![k].paid = TRUE, ![k].paidAt = toISOString(t)]

\* markAsUnpaid that forgets invoice.paidAt = null
markAsUnpaidKeepsPaidAt(invoices, id) ==
  LET k == getInvoiceById(invoices, id)
  IN  IF k = 0 THEN invoices
      ELSE [invoices EXCEPT ![k].paid = FALSE]

markAsUnpaid(invoices, id) ==
  LET k == getInvoiceById(invoices, id)
  IN  IF k = 0 THEN invoices
      ELSE [invoices EXCEPT ![k].paid = FALSE, ![k].paidAt = NULL]

updatePaymentStatus(invoices, id, paid, t) ==
  IF paid THEN markAsPaid(invoices, id, t) ELSE markAsUnpaid(invoices, id)

\* Object.assign(invoice, updates) with the updates of PUT /api/invoices/:id
updateInvoice(invoices, id, updates) ==
  LET k == getInvoiceById(invoices, id)
  IN  IF k = 0 THEN invoices
      ELSE [invoices EXCEPT ![k].invoiceNumber = updates.invoiceNumber,
                            ![k].amount = updates.amount,
                            ![k].items = updates.items,
                            ![k].discount = updates.discount,
                            ![k].client = updates.client,
                            ![k].clientPhone = updates.clientPhone,
                            ![k].payment = updates.payment]

\* invoice.expenses.push(expense), the expense stamped with the clock
addExpense(invoices, invoiceId, expenseData, t) ==
  LET k == getInvoiceById(invoices, invoiceId)
  IN  IF k = 0 THEN invoices
      ELSE [invoices EXCEPT
              ![k].expenses = Append(@, [id |-> IdOf(t),
                                         date |-> toISOString(t),
                                         amount |-> expenseData.amount,
                                         description |-> expenseData.description,
                                         category |-> expenseData.category,
                                         createdAt |-> toISOString(t)])]

\* the filter with sendDate < now
DueTestStrict(sendDate, t) == sendDate < t

\* The test of the filter of getInvoicesForAutoSend
DueTest(sendDate, t) == sendDate <= t

IsDue(inv, t) ==
  IF ~inv.autoSendEnabled \/ inv.nextSendDate = NULL THEN FALSE
  ELSE DueTest(ParseDate(inv.nextSendDate), t)

\* Array.prototype.filter keeps the order; the result holds the same objects,
\* given here by their indices in `invoices`
getInvoicesForAutoSend(invoices, t) ==
  LET F[k \in 0..Len(invoices)] ==
        IF k = 0 THEN << >>
        ELSE IF IsDue(invoices[k], t) THEN Append(F[k - 1], k) ELSE F[k - 1]
  IN  F[Len(invoices)]

\* currentDate.setMonth(currentDate.getMonth() + 1) and toISOString(), for
\* every day of the two years from BaseYear on
MonthLater ==
  [currentDate \in 0..(MakeDay(BaseYear + 2, 0, 1) - 1) |->
     toISOString(setMonth(currentDate, getMonth(currentDate) + 1))]

updateNextSendDate(invoices, id, t) ==
  LET k == getInvoiceById(invoices, id)
  IN  IF k = 0 \/ invoices[k].nextSendDate = NULL THEN invoices
      ELSE LET currentDate == ParseDate(invoices[k].nextSendDate)
           IN  [invoices EXCEPT ![k].nextSendDate = MonthLater[currentDate],
                                ![k].lastSentAt = toISOString(t)]

setAutoSend(invoices, id, enabled, nextSendDate) ==
  LET k == getInvoiceById(invoices, id)
  IN  IF k = 0 THEN invoices
      ELSE IF nextSendDate # NULL
           THEN [invoices EXCEPT ![k].autoSendEnabled = enabled,
                                 ![k].nextSendDate = nextSendDate]
           ELSE [invoices EXCEPT ![k].autoSendEnabled = enabled]

----------------------------------------------------------------------------
(* InvoiceCounter (src/src/invoiceCounter.js) *)

\* counter.current.toString().padStart(3, '0')
padStart3(n) ==
  IF n < 10 THEN "00" \o ToString(n)
  ELSE IF n < 100 THEN "0" \o ToString(n)
  ELSE ToString(n)

----------------------------------------------------------------------------
(* server.js: the array db.invoices seen through its references *)

\* the invoice objects of db.invoices, in array order
Deref(d, h) == [k \in 1..Len(d) |-> h[d[k]]]

Invoices == Deref(db, heap)

\* the heap after the objects of array d took the values v
Store(d, h, v) ==
  [r \in 1..Len(h) |->
     IF \E k \in 1..Len(d) : d[k] = r
     THEN v[CHOOSE k \in 1..Len(d) : d[k] = r]
     ELSE h[r]]

\* An object that neither db.invoices nor a suspended handler refers to is
\* garbage; its fields can no longer be read.
Freed ==
  [id |-> "freed", invoiceNumber |-> "",
   amount |-> [neg |-> FALSE, m |-> << >>, e |-> 0], items |-> << >>,
   discount |-> NullDiscount, client |-> "", clientPhone |-> << >>,
   payment |-> "", createdAt |-> NULL, paid |-> FALSE, paidAt |-> NULL,
   nextSendDate |-> NULL, autoSendEnabled |-> FALSE, lastSentAt |-> NULL,
   expenses |-> << >>]

Collect(h, d, pend) ==
  [r \in 1..Len(h) |->
     IF \/ \E k \in 1..Len(d) : d[k] = r
        \/ \E p \in 1..Len(pend) : pend[p].invoice = r
     THEN h[r] ELSE Freed]

Remove(s, p) == [k \in 1..(Len(s) - 1) |-> IF k < p THEN s[k] ELSE s[k + 1]]

\* JavaScript numbers are IEEE-754 binary64 values, and the totals of the
\* handlers are computed in them: a division, a product and a difference,
\* each rounded to the nearest value with a significand of 53 bits.
\*
\* A natural number too large for an integer of the checker is a sequence of
\* limbs below Radix, least significant first, without a leading zero limb.
RadixBits == 15
Radix == 2 ^ RadixBits

\* the significand of a binary64 value has 53 bits
Precision == 53

Largest(S) == CHOOSE i \in S : \A j \in S : j <= i

TrimLimbs(b) ==
  LET used == { i \in 1..Len(b) : b[i] # 0 }
  IN  IF used = {} THEN << >> ELSE SubSeq(b, 1, Largest(used))

NatToLimbs(n) ==
  TrimLimbs(<<n % Radix, (n \div Radix) % Radix, n \div (Radix * Radix)>>)

Limb(b, i) == IF i \in 1..Len(b) THEN b[i] ELSE 0

\* bit i of b, bit 0 the least significant
Bit(b, i) ==
  (Limb(b, (i \div RadixBits) + 1) \div (2 ^ (i % RadixBits))) % 2

BitLength(b) ==
  IF b = << >> THEN 0
  ELSE (Len(b) - 1) * RadixBits
         + (CHOOSE k \in 1..RadixBits : b[Len(b)] \div (2 ^ k) = 0
                                        /\ b[Len(b)] \div (2 ^ (k - 1)) # 0)

ShiftLeft(b, k) ==
  LET q == k \div RadixBits
      r == k % RadixBits
  IN  TrimLimbs([i \in 1..(Len(b) + q + 1) |->
                   ((Limb(b, i - q) * (2 ^ r)) % Radix)
                     + (Limb(b, i - q - 1) \div (2 ^ (RadixBits - r)))])

ShiftRight(b, k) ==
  LET q == k \div RadixBits
      r == k % RadixBits
  IN  TrimLimbs([i \in 1..(Len(b) - q) |->
                   (Limb(b, i + q) \div (2 ^ r))
                     + ((Limb(b, i + q + 1) % (2 ^ r)) * (2 ^ (RadixBits - r)))])

LessLimbs(a, b) ==
  IF Len(a) # Len(b) THEN Len(a) < Len(b)
  ELSE LET differ == { i \in 1..Len(a) : a[i] # b[i] }
       IN  differ # {} /\ a[Largest(differ)] < b[Largest(differ)]

RECURSIVE AddLimbs(_, _, _)
AddLimbs(a, b, carry) ==
  IF a = << >> /\ b = << >> THEN (IF carry = 0 THEN << >> ELSE <<carry>>)
  ELSE LET sum == Limb(a, 1) + Limb(b, 1) + carry
       IN  <<sum % Radix>> \o AddLimbs(IF a = << >> THEN a ELSE Tail(a),
                                       IF b = << >> THEN b ELSE Tail(b),
                                       sum \div Radix)

\* a - b - borrow for a >= b
RECURSIVE SubLimbs(_, _, _)
SubLimbs(a, b, borrow) ==
  IF a = << >> THEN << >>
  ELSE LET d == a[1] - Limb(b, 1) - borrow
       IN  <<d % Radix>> \o SubLimbs(Tail(a),
                                     IF b = << >> THEN b ELSE Tail(b),
                                     IF d < 0 THEN 1 ELSE 0)

\* a * n + carry for one limb n
RECURSIVE MulLimb(_, _, _)
MulLimb(a, n, carry) ==
  IF a = << >> THEN (IF carry = 0 THEN << >> ELSE <<carry>>)
  ELSE LET p == a[1] * n + carry
       IN  <<p % Radix>> \o MulLimb(Tail(a), n, p \div Radix)

RECURSIVE MulLimbs(_, _)
MulLimbs(a, b) ==
  IF a = << >> \/ b = << >> THEN << >>
  ELSE AddLimbs(MulLimb(a, b[1], 0), <<0>> \o MulLimbs(a, Tail(b)), 0)

\* quotient and remainder of b by a divisor below Radix, from the top limb
RECURSIVE DivLimbsFrom(_, _, _, _, _)
DivLimbsFrom(b, d, i, r, q) ==
  IF i = 0 THEN [q |-> TrimLimbs(q), r |-> r]
  ELSE LET cur == r * Radix + b[i]
       IN  DivLimbsFrom(b, d, i - 1, cur % d, <<cur \div d>> \o q)

DivLimbs(b, d) == DivLimbsFrom(b, d, Len(b), 0, << >>)

\* A JavaScript number (-1)^neg * m * 2^e, m odd or zero.
Normalize(neg, m, e) ==
  IF m = << >> THEN [neg |-> FALSE, m |-> << >>, e |-> 0]
  ELSE LET low == CHOOSE i \in 1..Len(m) :
                    m[i] # 0 /\ \A j \in 1..(i - 1) : m[j] = 0
           bit == CHOOSE k \in 0..(RadixBits - 1) :
                    m[low] % (2 ^ k) = 0 /\ m[low] % (2 ^ (k + 1)) # 0
           zeros == (low - 1) * RadixBits + bit
       IN  [neg |-> neg, m |-> ShiftRight(m, zeros), e |-> e + zeros]

\* round to nearest, ties to even, to a significand of Precision bits
RoundNumber(neg, x, e) ==
  IF BitLength(x) <= Precision THEN Normalize(neg, x, e)
  ELSE LET sh == BitLength(x) - Precision
           q == ShiftRight(x, sh)
           above == \E j \in 0..(sh - 2) : Bit(x, j) = 1
           up == Bit(x, sh - 1) = 1 /\ (above \/ Bit(q, 0) = 1)
       IN  Normalize(neg, IF up THEN AddLimbs(q, <<1>>, 0) ELSE q, e + sh)

\* an integer as a number
NumberOf(n) == Normalize(n < 0, NatToLimbs(IF n < 0 THEN 0 - n ELSE n), 0)

\* n / divisor for an integer n and a positive integer divisor below Radix
DivideNumber(n, divisor) ==
  LET d == DivLimbs(ShiftLeft(NatToLimbs(IF n < 0 THEN 0 - n ELSE n),
                              5 * RadixBits), divisor)
      sticky == IF d.r # 0 THEN <<1>> ELSE << >>
  IN  RoundNumber(n < 0, AddLimbs(ShiftLeft(d.q, 1), sticky, 0),
                  0 - (5 * RadixBits + 1))

MultiplyNumbers(x, y) ==
  RoundNumber(x.neg # y.neg, MulLimbs(x.m, y.m), x.e + y.e)

\* x - y for numbers x >= 0 and y >= 0
SubtractNumbers(x, y) ==
  LET e == IF x.e < y.e THEN x.e ELSE y.e
      a == ShiftLeft(x.m, x.e - e)
      b == ShiftLeft(y.m, y.e - e)
  IN  IF LessLimbs(a, b) THEN RoundNumber(TRUE, TrimLimbs(SubLimbs(b, a, 0)), e)
      ELSE RoundNumber(FALSE, TrimLimbs(SubLimbs(a, b, 0)), e)

\* items.map(item => ({..., amount: item.quantity * item.price}))
MapItems(items) ==
  [k \in 1..Len(items) |->
     [name |-> items[k].name, unit |-> items[k].unit,
      quantity |-> items[k].quantity, price |-> items[k].price,
      amount |-> items[k].quantity * items[k].price]]

RECURSIVE SumAmounts(_)
SumAmounts(items) ==
  IF items = << >> THEN 0
  ELSE items[1].amount + SumAmounts(Tail(items))

\* the total of the handlers: reduce over item.amount (integers, exact in a
\* JavaScript number), then
\*   totalAmount -= totalAmount * (discount.value / 100)   for "percent",
\*   totalAmount -= discount.value                         for "fixed".
TotalAmount(items, discount) ==
  LET totalAmount == NumberOf(SumAmounts(items))
  IN  IF Falsy(discount) THEN totalAmount
      ELSE IF discount.type = "percent"
           THEN SubtractNumbers(totalAmount,
                  MultiplyNumbers(totalAmount,
                                  DivideNumber(discount.value, 100)))
      ELSE IF discount.type = "fixed"
           THEN SubtractNumbers(totalAmount, NumberOf(discount.value))
      ELSE totalAmount

\* if (discount && discount.type && discount.value) invoiceData.discount = discount
BodyDiscount(body) ==
  IF Falsy(body.discount) \/ body.discount.value = 0 THEN UndefinedDiscount
  ELSE body.discount

\* The totals the handlers compute for the request bodies.  A total is a
\* function of the item list and the discount alone, so each is computed
\* once and looked up where a handler computes it.
Totals ==
  [items \in { MapItems(body.items) : body \in RequestBodies },
   discount \in { BodyDiscount(body) : body \in RequestBodies } |->
     TotalAmount(items, discount)]

NoResponse == [status |-> 0, success |-> FALSE, warning |-> FALSE,
               newInvoice |-> FALSE]

----------------------------------------------------------------------------
(* server.js: the request handlers *)

Tick ==
  /\ now < StartDay + MaxTicks
  /\ now' = now + 1
  /\ UNCHANGED <<heap, db, file, counter, issued, retired, pending, resp>>
  /\ UNCHANGED schedVars

\* POST /api/invoice.  The handler awaits the PDF before it touches db, so
\* its effect on db is the one step after the await; a PDF that fails to
\* generate ends the request with 500 and no effect.
CreateInvoice(body) ==
  /\ Len(heap) < MaxInvoices
  /\ LET items == MapItems(body.items)
         discount == BodyDiscount(body)
         added == addInvoice(Invoices,
                    [invoiceNumber |-> body.invoiceNumber,
                     amount |-> Totals[items, discount],
                     items |-> items,
                     discount |-> discount,
                     client |-> body.clientName,
                     clientPhone |-> body.clientPhone,
                     payment |-> body.payment,
                     nextSendDate |-> NULL,
                     autoSendEnabled |-> FALSE], now)
     IN  /\ heap' = Append(heap, added[Len(added)])
         /\ db' = Append(db, Len(heap) + 1)
         /\ file' = added
  /\ UNCHANGED <<now, counter, issued, retired, pending, resp>>
  /\ UNCHANGED schedVars

\* PUT /api/invoices/:id, likewise one step after its await
UpdateInvoice(id, body) ==
  /\ getInvoiceById(Invoices, id) # 0
  /\ LET items == MapItems(body.items)
         discount == BodyDiscount(body)
         updated == updateInvoice(Invoices, id,
                      [invoiceNumber |-> body.invoiceNumber,
                       amount |-> Totals[items, discount],
                       items |-> items,
                       discount |-> discount,
                       client |-> body.clientName,
                       clientPhone |-> body.clientPhone,
                       payment |-> body.payment])
     IN  /\ heap' = Store(db, heap, updated)
         /\ file' = updated
  /\ UNCHANGED <<now, db, counter, issued, retired, pending, resp>>
  /\ UNCHANGED schedVars

\* DELETE /api/invoices/:id (deleteInvoice: splice of the first match)
DeleteInvoice(id) ==
  LET k == getInvoiceById(Invoices, id)
  IN  /\ k # 0
      /\ db' = Remove(db, k)
      /\ heap' = Collect(heap, db', pending)
      /\ file' = Deref(db', heap)
      /\ retired' = retired \ {id}
      /\ UNCHANGED <<now, counter, issued, pending, resp>>
      /\ UNCHANGED schedVars

\* POST /api/invoices/:id/auto-send; an unknown id is answered with 404
SetAutoSend(id, enabled, nextSendDate) ==
  /\ getInvoiceById(Invoices, id) # 0
  /\ LET updated == setAutoSend(Invoices, id, enabled, nextSendDate)
     IN  /\ heap' = Store(db, heap, updated)
         /\ file' = updated
  /\ retired' = IF enabled THEN retired \ {id} ELSE retired
  /\ UNCHANGED <<now, db, counter, issued, pending, resp>>
  /\ UNCHANGED schedVars

\* a handler that duplicates for the first payment only
WasUnpaidFirst(oldInvoice) == ~oldInvoice.paid /\ counter = 0

\* the handler without the test of the old status
WasUnpaidAlways(oldInvoice) == TRUE

\* const wasUnpaid = !oldInvoice.paid
WasUnpaid(oldInvoice) == ~oldInvoice.paid

\* PUT /api/invoices/:id/payment, up to `await invoiceService.createInvoice`
\* or, on the paths without duplication, up to the response
Payment(id, paid) ==
  LET k == getInvoiceById(Invoices, id)
  IN  IF k = 0
      THEN /\ resp' = [NoResponse EXCEPT !.status = 404]
           /\ UNCHANGED <<now, heap, db, file, counter, issued, retired,
                          pending>>
           /\ UNCHANGED schedVars
      ELSE LET wasUnpaid == WasUnpaid(Invoices[k])
               updated == updatePaymentStatus(Invoices, id, paid, now)
               invoice == updated[k]
               discount == IF Falsy(invoice.discount) THEN UndefinedDiscount
                           ELSE invoice.discount
           IN  /\ heap' = Store(db, heap, updated)
               /\ file' = updated
               /\ IF paid /\ wasUnpaid
                  THEN /\ counter < MaxCounter
                       /\ Len(pending) < MaxPending
                       /\ counter' = counter + 1
                       /\ issued' = issued \cup {counter + 1}
                       /\ pending' = Append(pending,
                            [invoice |-> db[k],
                             newInvoiceNumber |-> padStart3(counter + 1),
                             items |-> invoice.items,
                             discount |-> discount,
                             payment |-> invoice.payment,
                             totalAmount |->
                               Totals[invoice.items, discount],
                             manual |-> FALSE])
                       /\ UNCHANGED resp
                  ELSE /\ resp' = [NoResponse EXCEPT !.status = 200,
                                                     !.success = TRUE]
                       /\ UNCHANGED <<counter, issued, pending>>
               /\ UNCHANGED <<now, db, retired>>
               /\ UNCHANGED schedVars

\* const nextSendDate = new Date(); nextSendDate.setMonth(getMonth() + 1)
NextMonthFrom(t) == toISOString(setMonth(t, getMonth(t) + 1))

\* the same handler after the await, when the PDF was generated, in a run
\* that allocates at most cap invoice objects
PaymentDuplicatedWithin(p, cap) ==
  /\ p \in 1..Len(pending)
  /\ ~pending[p].manual
  /\ Len(heap) < cap
  /\ LET invoiceData == pending[p]
         invoice == heap[invoiceData.invoice]
         added == addInvoice(Invoices,
                    [invoiceNumber |-> invoiceData.newInvoiceNumber,
                     amount |-> invoiceData.totalAmount,
                     items |-> invoiceData.items,
                     discount |-> invoiceData.discount,
                     client |-> invoice.client,
                     clientPhone |-> invoice.clientPhone,
                     payment |-> invoiceData.payment,
                     nextSendDate |-> NextMonthFrom(now),
                     autoSendEnabled |-> TRUE], now)
         disarmed == IF invoice.autoSendEnabled
                     THEN setAutoSend(added, invoice.id, FALSE, NULL)
                     ELSE added
         heap1 == Append(heap, added[Len(added)])
     IN  /\ db' = Append(db, Len(heap) + 1)
         /\ pending' = Remove(pending, p)
         /\ heap' = Collect(Store(db', heap1, disarmed), db', pending')
         /\ file' = disarmed
         /\ resp' = [status |-> 200, success |-> TRUE, warning |-> FALSE,
                     newInvoice |-> TRUE]
         /\ retired' = IF /\ invoice.autoSendEnabled
                          /\ getInvoiceById(added, invoice.id) # 0
                       THEN retired \cup {invoice.id}
                       ELSE retired
  /\ UNCHANGED <<now, counter, issued>>
  /\ UNCHANGED schedVars

PaymentDuplicated(p) == PaymentDuplicatedWithin(p, MaxInvoices)

\* a catch block that takes the payment back and answers 500
PaymentDuplicateErrorRollsBack(p) ==
  /\ p \in 1..Len(pending)
  /\ ~pending[p].manual
  /\ pending' = Remove(pending, p)
  /\ LET undone == markAsUnpaid(Invoices, heap[pending[p].invoice].id)
     IN  /\ heap' = Collect(Store(db, heap, undone), db, pending')
         /\ file' = undone
  /\ resp' = [NoResponse EXCEPT !.status = 500]
  /\ UNCHANGED <<now, db, counter, issued, retired>>
  /\ UNCHANGED schedVars

\* a handler that switches the source off before it awaits the document, so
\* that a failure leaves the source disarmed
PaymentDuplicateErrorDisarms(p) ==
  /\ p \in 1..Len(pending)
  /\ ~pending[p].manual
  /\ pending' = Remove(pending, p)
  /\ LET disarmed == setAutoSend(Invoices, heap[pending[p].invoice].id,
                                 FALSE, NULL)
     IN  /\ heap' = Collect(Store(db, heap, disarmed), db, pending')
         /\ file' = disarmed
  /\ resp' = [status |-> 200, success |-> TRUE, warning |-> TRUE,
              newInvoice |-> FALSE]
  /\ UNCHANGED <<now, db, counter, issued, retired>>
  /\ UNCHANGED schedVars

\* the same handler after the await, when createInvoice threw
PaymentDuplicateError(p) ==
  /\ p \in 1..Len(pending)
  /\ ~pending[p].manual
  /\ pending' = Remove(pending, p)
  /\ heap' = Collect(heap, db, pending')
  /\ resp' = [status |-> 200, success |-> TRUE, warning |-> TRUE,
              newInvoice |-> FALSE]
  /\ UNCHANGED <<now, db, file, counter, issued, retired>>
  /\ UNCHANGED schedVars

\* POST /api/invoices/:id/duplicate, up to `await createInvoice`; an unknown
\* id is answered with 404 before a number is drawn
DuplicateInvoice(id) ==
  LET k == getInvoiceById(Invoices, id)
  IN  /\ k # 0
      /\ counter < MaxCounter
      /\ Len(pending) < MaxPending
      /\ counter' = counter + 1
      /\ issued' = issued \cup {counter + 1}
      /\ LET originalInvoice == Invoices[k]
             discount == IF Falsy(originalInvoice.discount)
                         THEN UndefinedDiscount
                         ELSE originalInvoice.discount
         IN  pending' = Append(pending,
               [invoice |-> db[k],
                newInvoiceNumber |-> padStart3(counter + 1),
                items |-> originalInvoice.items,
                discount |-> discount,
                payment |-> originalInvoice.payment,
                totalAmount |-> Totals[originalInvoice.items, discount],
                manual |-> TRUE])
      /\ UNCHANGED <<now, heap, db, file, retired, resp>>
      /\ UNCHANGED schedVars

\* the same handler after the await, when the PDF was generated
Duplicated(p) ==
  /\ p \in 1..Len(pending)
  /\ pending[p].manual
  /\ Len(heap) < MaxInvoices
  /\ LET invoiceData == pending[p]
         originalInvoice == heap[invoiceData.invoice]
         added == addInvoice(Invoices,
                    [invoiceNumber |-> invoiceData.newInvoiceNumber,
                     amount |-> invoiceData.totalAmount,
                     items |-> invoiceData.items,
                     discount |-> invoiceData.discount,
                     client |-> originalInvoice.client,
                     clientPhone |-> originalInvoice.clientPhone,
                     payment |-> invoiceData.payment,
                     nextSendDate |-> NULL,
                     autoSendEnabled |-> FALSE], now)
     IN  /\ db' = Append(db, Len(heap) + 1)
         /\ pending' = Remove(pending, p)
         /\ heap' = Collect(Append(heap, added[Len(added)]), db', pending')
         /\ file' = added
  /\ UNCHANGED <<now, counter, issued, retired, resp>>
  /\ UNCHANGED schedVars

\* the same handler after the await, when createInvoice threw: 500
DuplicateError(p) ==
  /\ p \in 1..Len(pending)
  /\ pending[p].manual
  /\ pending' = Remove(pending, p)
  /\ heap' = Collect(heap, db, pending')
  /\ UNCHANGED <<now, db, file, counter, issued, retired, resp>>
  /\ UNCHANGED schedVars

\* GET /api/invoice-counter/next: getNextInvoiceNumber()
NextNumber ==
  /\ counter < MaxCounter
  /\ counter' = counter + 1
  /\ issued' = issued \cup {counter + 1}
  /\ UNCHANGED <<now, heap, db, file, retired, pending, resp>>
  /\ UNCHANGED schedVars

\* POST /api/invoice-counter/reset: resetCounter()
ResetCounter ==
  /\ counter' = 0
  /\ UNCHANGED <<now, heap, db, file, issued, retired, pending, resp>>
  /\ UNCHANGED schedVars

\* values of POST /api/invoice-counter/set
CounterInputs == 0..MaxCounter

\* POST /api/invoice-counter/set: counter.current = parseInt(value) || 0
SetCounter(value) ==
  /\ counter' = value
  /\ UNCHANGED <<now, heap, db, file, issued, retired, pending, resp>>
  /\ UNCHANGED schedVars

----------------------------------------------------------------------------
(* The server before (or without) a scheduler: initWhatsApp has not         *)
(* finished, or it failed, and autoSendScheduler is null.                   *)

\* no status was asked for yet
NoStatus == [isRunning |-> FALSE, isProcessing |-> FALSE,
             upcomingInvoices |-> 0]

NoPass == [invoices |-> << >>, delays |-> 0, results |-> << >>,
           skipped |-> FALSE, ended |-> FALSE]

Init ==
  /\ now = StartDay
  /\ heap = << >>
  /\ db = << >>
  /\ file = << >>
  /\ counter = 0
  /\ issued = {}
  /\ retired = {}
  /\ pending = << >>
  /\ resp = NoResponse
  /\ scheduler = FALSE
  /\ schedDb = << >>
  /\ isProcessing = FALSE
  /\ intervalId = FALSE
  /\ intervals = 0
  /\ timeouts = 0
  /\ passes = << >>
  /\ lastPass = NoPass
  /\ status = NoStatus

Next ==
  \/ Tick
  \/ \E body \in Bodies : CreateInvoice(body)
  \/ \E id \in RequestIds, body \in Bodies : UpdateInvoice(id, body)
  \/ \E id \in RequestIds : DeleteInvoice(id)
  \/ \E id \in RequestIds, enabled \in BOOLEAN,
        nextSendDate \in DateInputs \cup {NULL} :
       SetAutoSend(id, enabled, nextSendDate)
  \/ \E id \in RequestIds, paid \in BOOLEAN : Payment(id, paid)
  \/ \E p \in 1..MaxPending : PaymentDuplicated(p)
  \/ \E p \in 1..MaxPending : PaymentDuplicateError(p)

Spec == Init /\ [][Next]_vars

\* the handlers that draw invoice numbers, and the counter endpoints
NextCounter ==
  \/ Tick
  \/ \E body \in Bodies : CreateInvoice(body)
  \/ \E id \in RequestIds, paid \in BOOLEAN : Payment(id, paid)
  \/ \E p \in 1..MaxPending : PaymentDuplicated(p)
  \/ \E p \in 1..MaxPending : PaymentDuplicateError(p)
  \/ \E id \in RequestIds : DuplicateInvoice(id)
  \/ \E p \in 1..MaxPending : Duplicated(p)
  \/ \E p \in 1..MaxPending : DuplicateError(p)
  \/ NextNumber
  \/ ResetCounter
  \/ \E value \in CounterInputs : SetCounter(value)

SpecCounter == Init /\ [][NextCounter]_vars

\* the handlers that compute an invoice total
NextAmount ==
  \/ Tick
  \/ \E body \in AmountBodies : CreateInvoice(body)
  \/ \E id \in RequestIds, body \in AmountBodies : UpdateInvoice(id, body)
  \/ \E id \in RequestIds, paid \in BOOLEAN : Payment(id, paid)
  \/ \E p \in 1..MaxPending : PaymentDuplicated(p)
  \/ \E id \in RequestIds : DuplicateInvoice(id)
  \/ \E p \in 1..MaxPending : Duplicated(p)

SpecAmount == Init /\ [][NextAmount]_vars

----------------------------------------------------------------------------
(* AutoSendScheduler (autoSendScheduler.js)                                 *)
(*                                                                         *)
(* An activation of checkAndSend that passed the guard is a record of its  *)
(* locals: `invoices` (the due objects, as indices into schedDb), the loop *)
(* variable `i`, and where it is suspended: "send" in `await sendInvoice`, *)
(* "sleep" in `await this.sleep(this.sendDelay)`.  `delays` counts its     *)
(* calls of sleep, `results` records how each invoice ended, `skipped`     *)
(* whether a call of checkAndSend was dropped while it ran.                *)

\* what whatsappManager.sendMessageWithFile settles with
ChannelResults == {"ok", "unsuccessful", "throw"}

\* checkAndSend without its guard
GuardAlwaysOpen(processing) == TRUE

\* if (this.isProcessing) return
GuardOpen(processing) == ~processing

\* the matches of \d and of [0-9]
Digits == {"0", "1", "2", "3", "4", "5", "6", "7", "8", "9"}

\* String.prototype.startsWith for a one-character prefix
startsWith(str, c) == Len(str) > 0 /\ str[1] = c

\* the normalisation of sendInvoice without its replace(/\D/g, '')
phoneOfUnstripped(clientPhone) ==
  LET swapped == IF startsWith(clientPhone, "8")
                 THEN <<"7">> \o SubSeq(clientPhone, 2, Len(clientPhone))
                 ELSE clientPhone
  IN  IF ~startsWith(swapped, "7") THEN <<"7">> \o swapped ELSE swapped

\* sendInvoice: let phone = invoice.clientPhone.replace(/\D/g, '') and the
\* two tests on its first character
phoneOf(clientPhone) ==
  LET stripped == SelectSeq(clientPhone, LAMBDA c : c \in Digits)
      swapped == IF startsWith(stripped, "8")
                 THEN <<"7">> \o SubSeq(stripped, 2, Len(stripped))
                 ELSE stripped
  IN  IF ~startsWith(swapped, "7") THEN <<"7">> \o swapped ELSE swapped

\* sendMessageWithFile: let cleanPhone = phone.replace(/[^0-9]/g, '') and the
\* same two tests
cleanPhone(phone) ==
  LET stripped == SelectSeq(phone, LAMBDA c : c \in Digits)
      swapped == IF startsWith(stripped, "8")
                 THEN <<"7">> \o SubSeq(stripped, 2, Len(stripped))
                 ELSE stripped
  IN  IF ~startsWith(swapped, "7") THEN <<"7">> \o swapped ELSE swapped

\* sendInvoice up to its await: the checks that throw synchronously
sendInvoice(invoice, pdfFound) ==
  IF invoice.clientPhone = << >> THEN "MissingRecipient"
  ELSE IF ~pdfFound THEN "DocumentNotFound"
  ELSE "await"

\* a loop without the pacing sleep
MustSleepNever(i, length) == FALSE

\* the pacing sleep after the last invoice as well
MustSleepAfterEach(i, length) == i < length

\* if (i < invoices.length - 1) await this.sleep(this.sendDelay)
MustSleep(i, length) == i < length - 1

RECURSIVE BeginInvoice(_, _), AfterInvoice(_, _), NextIteration(_, _)

\* the body of the loop for invoices[i], up to its first await
BeginInvoice(a, pdfFound) ==
  LET r == sendInvoice(schedDb[a.invoices[a.i + 1]], pdfFound)
  IN  IF r = "await"
      THEN [a EXCEPT !.pc = "send",
                     !.phone = phoneOf(schedDb[a.invoices[a.i + 1]].clientPhone)]
      ELSE AfterInvoice([a EXCEPT !.results = Append(@, r)], pdfFound)

\* a loop whose catch is outside the for: a failed invoice ends the pass
AfterInvoiceAbortsOnError(a, pdfFound) ==
  IF a.results[Len(a.results)] # "sent" THEN [a EXCEPT !.pc = "done"]
  ELSE IF MustSleep(a.i, Len(a.invoices))
       THEN [a EXCEPT !.pc = "sleep", !.delays = @ + 1]
       ELSE NextIteration(a, pdfFound)

\* the rest of the body once invoices[i] is settled: the pacing sleep
AfterInvoice(a, pdfFound) ==
  IF MustSleep(a.i, Len(a.invoices))
  THEN [a EXCEPT !.pc = "sleep", !.delays = @ + 1]
  ELSE NextIteration(a, pdfFound)

\* i++ and the loop test i < invoices.length
NextIteration(a, pdfFound) ==
  LET b == [a EXCEPT !.i = @ + 1]
  IN  IF b.i < Len(b.invoices) THEN BeginInvoice(b, pdfFound)
      ELSE [b EXCEPT !.pc = "done"]

Summary(a) ==
  [invoices |-> a.invoices, delays |-> a.delays, results |-> a.results,
   skipped |-> a.skipped, ended |-> TRUE]

\* checkAndSend without its `finally`
ContinueKeepsFlag(p, a) ==
  IF a.pc = "done"
  THEN /\ passes' = Remove(passes, p)
       /\ lastPass' = Summary(a)
       /\ UNCHANGED isProcessing
  ELSE /\ passes' = [passes EXCEPT ![p] = a]
       /\ UNCHANGED <<isProcessing, lastPass>>

\* activation p continues as a; `finally` runs when it has left the loop
Continue(p, a) ==
  IF a.pc = "done"
  THEN /\ passes' = Remove(passes, p)
       /\ isProcessing' = FALSE
       /\ lastPass' = Summary(a)
  ELSE /\ passes' = [passes EXCEPT ![p] = a]
       /\ UNCHANGED <<isProcessing, lastPass>>

\* checkAndSend(), from its call to its first await or to its return
checkAndSend(pdfFound) ==
  IF ~GuardOpen(isProcessing)
  THEN /\ passes' = [p \in 1..Len(passes) |->
                       [passes[p] EXCEPT !.skipped = TRUE]]
       /\ UNCHANGED <<isProcessing, lastPass>>
  ELSE LET invoices == getInvoicesForAutoSend(schedDb, now)
           a == [invoices |-> invoices, i |-> 0, pc |-> "start",
                 delays |-> 0, results |-> << >>, skipped |-> FALSE,
                 phone |-> << >>]
       IN  IF Len(invoices) = 0
           THEN /\ isProcessing' = FALSE
                /\ lastPass' = Summary(a)
                /\ UNCHANGED passes
           ELSE LET b == BeginInvoice(a, pdfFound)
                IN  IF b.pc = "done"
                    THEN /\ isProcessing' = FALSE
                         /\ lastPass' = Summary(b)
                         /\ UNCHANGED passes
                    ELSE /\ isProcessing' = TRUE
                         /\ passes' = Append(passes, b)
                         /\ lastPass' = NoPass

\* setInterval(() => this.checkAndSend(), this.checkInterval)
IntervalFires(pdfFound) ==
  /\ scheduler /\ intervals > 0
  /\ checkAndSend(pdfFound)
  /\ UNCHANGED <<now, file, scheduler, schedDb, intervalId, intervals, timeouts>>
  /\ UNCHANGED status
  /\ UNCHANGED apiVars

\* The interval's call of checkAndSend when a statement of the outer try
\* throws (the due query over a store that does not hold an array of
\* invoices): `catch` logs the error, `finally` releases the flag.
HarnessThrows ==
  /\ scheduler /\ intervals > 0
  /\ GuardOpen(isProcessing)
  /\ isProcessing' = FALSE
  /\ lastPass' = [NoPass EXCEPT !.ended = TRUE]
  /\ UNCHANGED <<now, file, scheduler, schedDb, intervalId, intervals, timeouts,
                 passes>>
  /\ UNCHANGED status
  /\ UNCHANGED apiVars

\* setTimeout(() => this.checkAndSend(), 60 * 1000)
TimeoutFires(pdfFound) ==
  /\ scheduler /\ timeouts > 0
  /\ timeouts' = timeouts - 1
  /\ checkAndSend(pdfFound)
  /\ UNCHANGED <<now, file, scheduler, schedDb, intervalId, intervals>>
  /\ UNCHANGED status
  /\ UNCHANGED apiVars

\* POST /api/auto-send/check-now
CheckNow(pdfFound) ==
  /\ scheduler
  /\ checkAndSend(pdfFound)
  /\ UNCHANGED <<now, file, scheduler, schedDb, intervalId, intervals, timeouts>>
  /\ UNCHANGED status
  /\ UNCHANGED apiVars

\* a status that counts every armed invoice, due or not
getStatusOfArmed ==
  [isRunning |-> intervalId,
   isProcessing |-> isProcessing,
   upcomingInvoices |->
     Cardinality({ k \in 1..Len(schedDb) : schedDb[k].autoSendEnabled })]

\* getStatus(): checkInterval and sendDelay are constants and left out
getStatus ==
  [isRunning |-> intervalId,
   isProcessing |-> isProcessing,
   upcomingInvoices |-> Len(getInvoicesForAutoSend(schedDb, now))]

\* GET /api/auto-send/status with a scheduler
GetStatus ==
  /\ scheduler
  /\ status' = getStatus
  /\ UNCHANGED <<now, file, scheduler, schedDb, isProcessing, intervalId,
                 intervals, timeouts, passes, lastPass>>
  /\ UNCHANGED apiVars

\* updateNextSendDate moved out of the try, after the catch
AdvancesAlways(result) == TRUE

\* try { await this.sendInvoice(invoice); this.db.updateNextSendDate(...) }
Advances(result) == result = "ok"

\* a checkAndSend without try and finally: an exception of the channel ends
\* the activation and the flag stays set
SendSettlesLeaksOnThrow(p, result, pdfFound) ==
  /\ p \in 1..Len(passes)
  /\ passes[p].pc = "send"
  /\ LET a == passes[p]
         invoice == schedDb[a.invoices[a.i + 1]]
         updated == IF Advances(result)
                    THEN updateNextSendDate(schedDb, invoice.id, now)
                    ELSE schedDb
         b == [a EXCEPT !.results =
                          Append(@, IF result = "ok" THEN "sent"
                                    ELSE "DeliveryFailure"),
                        !.phone = << >>]
     IN  /\ schedDb' = updated
         /\ file' = IF Advances(result) THEN updated ELSE file
         /\ IF result = "throw"
            THEN ContinueKeepsFlag(p, [b EXCEPT !.pc = "done"])
            ELSE Continue(p, AfterInvoice(b, pdfFound))
  /\ UNCHANGED <<now, scheduler, intervalId, intervals, timeouts>>
  /\ UNCHANGED status
  /\ UNCHANGED apiVars

\* the promise of sendMessageWithFile settles for activation p
SendSettles(p, result, pdfFound) ==
  /\ p \in 1..Len(passes)
  /\ passes[p].pc = "send"
  /\ LET a == passes[p]
         invoice == schedDb[a.invoices[a.i + 1]]
         updated == IF Advances(result)
                    THEN updateNextSendDate(schedDb, invoice.id, now)
                    ELSE schedDb
     IN  /\ schedDb' = updated
         /\ file' = IF Advances(result) THEN updated ELSE file
         /\ Continue(p, AfterInvoice(
              [a EXCEPT !.results =
                          Append(@, IF result = "ok" THEN "sent"
                                    ELSE "DeliveryFailure"),
                        !.phone = << >>], pdfFound))
  /\ UNCHANGED <<now, scheduler, intervalId, intervals, timeouts>>
  /\ UNCHANGED status
  /\ UNCHANGED apiVars

\* the timer of sleep(sendDelay) fires for activation p: the loop goes on
\* up to its next await
SleepEnds(p, pdfFound) ==
  /\ p \in 1..Len(passes)
  /\ passes[p].pc = "sleep"
  /\ Continue(p, NextIteration(passes[p], pdfFound))
  /\ UNCHANGED <<now, file, scheduler, schedDb, intervalId, intervals, timeouts>>
  /\ UNCHANGED status
  /\ UNCHANGED apiVars

----------------------------------------------------------------------------
(* The scheduler, constructed and started by initWhatsApp over the file    *)
(* that earlier runs of the server left behind.                            *)

\* An invoice as POST /api/invoice at time t and POST .../auto-send store it
StoredInvoice(body, t, enabled, nextSendDate) ==
  LET items == MapItems(body.items)
      discount == BodyDiscount(body)
      added == addInvoice(<< >>,
                 [invoiceNumber |-> body.invoiceNumber,
                  amount |-> Totals[items, discount],
                  items |-> items,
                  discount |-> discount,
                  client |-> body.clientName,
                  clientPhone |-> body.clientPhone,
                  payment |-> body.payment,
                  nextSendDate |-> NULL,
                  autoSendEnabled |-> FALSE], t)
  IN  setAutoSend(added, IdOf(t), enabled, nextSendDate)[1]

WithPhone == CHOOSE body \in Bodies : body.clientPhone # << >>
WithoutPhone == CHOOSE body \in Bodies : body.clientPhone = << >>

\* What the k-th invoice of the file can be; it was created on day k.
\* Armed for a date more than a month ago, for today, for tomorrow, armed
\* without a date, switched off with a past date, armed without a phone.
FileInvoices(k) ==
  LET past == toISOString(MakeDay(BaseYear, 0, 1))
  IN  { StoredInvoice(WithPhone, k, TRUE, past),
        StoredInvoice(WithPhone, k, TRUE, toISOString(StartDay)),
        StoredInvoice(WithPhone, k, TRUE, toISOString(StartDay + 1)),
        StoredInvoice(WithPhone, k, TRUE, NULL),
        StoredInvoice(WithPhone, k, FALSE, past),
        StoredInvoice(WithoutPhone, k, TRUE, past) }

RECURSIVE FilesOfLength(_)
FilesOfLength(n) ==
  IF n = 0 THEN { << >> }
  ELSE { Append(f, inv) : f \in FilesOfLength(n - 1), inv \in FileInvoices(n) }

FileContents == UNION { FilesOfLength(n) : n \in 0..MaxFile }

InitSched ==
  /\ now = StartDay
  /\ file \in FileContents
  /\ heap = file                         \* server.js: db = new InvoiceDatabase()
  /\ db = [k \in 1..Len(file) |-> k]
  /\ counter = 0
  /\ issued = {}
  /\ retired = {}
  /\ pending = << >>
  /\ resp = NoResponse
  /\ scheduler = TRUE                    \* new AutoSendScheduler(whatsappManager)
  /\ schedDb = file                      \* its own new InvoiceDatabase()
  /\ isProcessing = FALSE
  /\ intervalId = TRUE                   \* start()
  /\ intervals = 1
  /\ timeouts = 1
  /\ passes = << >>
  /\ lastPass = NoPass
  /\ status = NoStatus

NextSched ==
  \/ Tick
  \/ \E pdfFound \in BOOLEAN : IntervalFires(pdfFound)
  \/ HarnessThrows
  \/ \E pdfFound \in BOOLEAN : TimeoutFires(pdfFound)
  \/ \E pdfFound \in BOOLEAN : CheckNow(pdfFound)
  \/ \E p \in 1..Len(passes), result \in ChannelResults, pdfFound \in BOOLEAN :
       SendSettles(p, result, pdfFound)
  \/ \E p \in 1..Len(passes), pdfFound \in BOOLEAN : SleepEnds(p, pdfFound)

SpecSched == InitSched /\ [][NextSched]_vars

\* The scheduler over a file of two invoices when every call of the delivery
\* channel settles and every timer of sleep() fires: a promise that can
\* settle does settle, a timer that is set does fire.
InitPass == InitSched /\ Len(file) = 2

ChannelSettles ==
  WF_vars(\E p \in 1..Len(passes), result \in ChannelResults,
             pdfFound \in BOOLEAN : SendSettles(p, result, pdfFound))

SleepFires ==
  WF_vars(\E p \in 1..Len(passes), pdfFound \in BOOLEAN : SleepEnds(p, pdfFound))

SpecPassFair ==
  InitPass /\ [][NextSched]_vars /\ ChannelSettles /\ SleepFires

----------------------------------------------------------------------------
(* start() and stop() of a scheduler that was constructed but not started   *)

\* start(): a one-shot timer for the first check and a new interval, whose
\* id replaces the one stored in this.intervalId
Start ==
  /\ scheduler
  /\ timeouts < MaxStarts /\ intervals < MaxStarts
  /\ timeouts' = timeouts + 1
  /\ intervals' = intervals + 1
  /\ intervalId' = TRUE
  /\ UNCHANGED <<now, file, scheduler, schedDb, isProcessing, passes, lastPass>>
  /\ UNCHANGED status
  /\ UNCHANGED apiVars

\* stop(): clearInterval(this.intervalId), when there is one
Stop ==
  /\ scheduler
  /\ IF intervalId
     THEN intervals' = intervals - 1 /\ intervalId' = FALSE
     ELSE UNCHANGED <<intervalId, intervals>>
  /\ UNCHANGED <<now, file, scheduler, schedDb, isProcessing, timeouts, passes,
                 lastPass>>
  /\ UNCHANGED status
  /\ UNCHANGED apiVars

TimerFiles == UNION { FilesOfLength(n) : n \in 0..(MaxFile - 1) }

InitTimers ==
  /\ now = StartDay
  /\ file \in TimerFiles
  /\ heap = file
  /\ db = [k \in 1..Len(file) |-> k]
  /\ counter = 0
  /\ issued = {}
  /\ retired = {}
  /\ pending = << >>
  /\ resp = NoResponse
  /\ scheduler = TRUE                    \* new AutoSendScheduler(whatsappManager)
  /\ schedDb = file
  /\ isProcessing = FALSE
  /\ intervalId = FALSE                  \* this.intervalId = null
  /\ intervals = 0
  /\ timeouts = 0
  /\ passes = << >>
  /\ lastPass = NoPass
  /\ status = NoStatus

NextTimers ==
  \/ Tick
  \/ Start
  \/ Stop
  \/ \E pdfFound \in BOOLEAN : IntervalFires(pdfFound)
  \/ \E pdfFound \in BOOLEAN : TimeoutFires(pdfFound)
  \/ \E p \in 1..Len(passes), result \in ChannelResults, pdfFound \in BOOLEAN :
       SendSettles(p, result, pdfFound)
  \/ \E p \in 1..Len(passes), pdfFound \in BOOLEAN : SleepEnds(p, pdfFound)

SpecTimers == InitTimers /\ [][NextTimers]_vars

\* the same scheduler asked for its status at any moment
NextStatus == NextTimers \/ GetStatus

SpecStatus == InitTimers /\ [][NextStatus]_vars

----------------------------------------------------------------------------
(* The running server: the request handlers and the started scheduler side  *)
(* by side, each over its own InvoiceDatabase.                              *)

\* the file at start-up: empty, or one invoice armed for a past date that
\* has one expense booked on it
LiveFiles ==
  FilesOfLength(0) \cup
  { addExpense(
      <<StoredInvoice(WithPhone, 1, TRUE, toISOString(MakeDay(BaseYear, 0, 1)))>>,
      IdOf(1), [amount |-> 500, description |-> "", category |-> "rent"], 1) }

InitLive ==
  /\ now = StartDay
  /\ file \in LiveFiles
  /\ heap = file
  /\ db = [k \in 1..Len(file) |-> k]
  /\ counter = 0
  /\ issued = {}
  /\ retired = {}
  /\ pending = << >>
  /\ resp = NoResponse
  /\ scheduler = TRUE
  /\ schedDb = file
  /\ isProcessing = FALSE
  /\ intervalId = TRUE
  /\ intervals = 1
  /\ timeouts = 0                         \* the first check is over
  /\ passes = << >>
  /\ lastPass = NoPass
  /\ status = NoStatus

\* a batch of this store has at most one invoice, so no pass sleeps
NextLive ==
  \/ Next
  \/ \E pdfFound \in BOOLEAN : IntervalFires(pdfFound)
  \/ \E p \in 1..Len(passes), result \in ChannelResults, pdfFound \in BOOLEAN :
       SendSettles(p, result, pdfFound)

SpecLive == InitLive /\ [][NextLive]_vars

\* The running server over a file that holds one armed invoice: the payment
\* and auto-send requests for that invoice, and the scheduler's passes.
InitRecur == InitLive /\ Len(file) = 1

NextRecur ==
  \/ Tick
  \/ \E k \in 1..Len(db), paid \in BOOLEAN : Payment(Invoices[k].id, paid)
  \/ \E p \in 1..MaxPending : PaymentDuplicated(p)
  \/ \E p \in 1..MaxPending : PaymentDuplicateError(p)
  \/ \E k \in 1..Len(db), enabled \in BOOLEAN,
        nextSendDate \in DateInputs \cup {NULL} :
       SetAutoSend(Invoices[k].id, enabled, nextSendDate)
  \/ \E pdfFound \in BOOLEAN : IntervalFires(pdfFound)
  \/ \E p \in 1..Len(passes), result \in ChannelResults, pdfFound \in BOOLEAN :
       SendSettles(p, result, pdfFound)

SpecRecur == InitRecur /\ [][NextRecur]_vars

\* The scheduler over a file with one armed invoice whose clientPhone is any
\* string of at most MaxPhoneLen characters: POST /api/invoice stores the
\* phone of the request as it came.
MaxPhoneLen == 3
PhoneChars == {"7", "8", "9", "+", " "}
PhoneStrings == UNION { [1..n -> PhoneChars] : n \in 0..MaxPhoneLen }

InitPhone ==
  /\ now = StartDay
  /\ file \in { <<[StoredInvoice(WithPhone, 1, TRUE,
                                 toISOString(MakeDay(BaseYear, 0, 1)))
                     EXCEPT !.clientPhone = str]>> : str \in PhoneStrings }
  /\ heap = file
  /\ db = [k \in 1..Len(file) |-> k]
  /\ counter = 0
  /\ issued = {}
  /\ retired = {}
  /\ pending = << >>
  /\ resp = NoResponse
  /\ scheduler = TRUE
  /\ schedDb = file
  /\ isProcessing = FALSE
  /\ intervalId = TRUE
  /\ intervals = 1
  /\ timeouts = 0
  /\ passes = << >>
  /\ lastPass = NoPass
  /\ status = NoStatus

NextPhone ==
  \/ \E pdfFound \in BOOLEAN : IntervalFires(pdfFound)
  \/ \E p \in 1..Len(passes), result \in ChannelResults, pdfFound \in BOOLEAN :
       SendSettles(p, result, pdfFound)

SpecPhone == InitPhone /\ [][NextPhone]_vars

\* The payment requests for the one invoice of the file, paid and unpaid in
\* turn, in a run long enough for two successors.
MaxToggled == 3

NextToggle ==
  \/ Tick
  \/ \E paid \in BOOLEAN : Payment(Invoices[1].id, paid)
  \/ \E p \in 1..MaxPending : PaymentDuplicatedWithin(p, MaxToggled)
  \/ \E p \in 1..MaxPending : PaymentDuplicateError(p)
  \/ \E enabled \in BOOLEAN : SetAutoSend(Invoices[1].id, enabled, NULL)

SpecToggle == InitRecur /\ [][NextToggle]_vars

----------------------------------------------------------------------------
(* Properties *)

\* the invoices of db.invoices that are the object r
InStore(r) == \E k \in 1..Len(db) : db[k] = r

PaidConsistent(inv) == inv.paid <=> inv.paidAt # NULL

\* C1: for every invoice of the store (and of the file written from it),
\* paid is true if and only if paidAt is non-null.
C1_PaidIffPaidAt ==
  /\ \A k \in 1..Len(db) : PaidConsistent(Invoices[k])
  /\ \A k \in 1..Len(file) : PaidConsistent(file[k])

\* a paid source next to its unpaid successor, after the source was marked
\* paid a second time
C1_Witness ==
  \E k, j \in 1..Len(db) :
    /\ Invoices[k].paid /\ Invoices[k].paidAt = toISOString(StartDay + 1)
    /\ Invoices[j].invoiceNumber = padStart3(1)
    /\ ~Invoices[j].paid /\ Invoices[j].paidAt = NULL

\* C2: at most one activation of checkAndSend is past the guard, the flag
\* isProcessing says whether there is one, and a call of checkAndSend made
\* while one runs changes neither the activation's batch and position nor
\* the scheduler's store, and starts nothing.
C2_SingleFlight ==
  /\ [](Len(passes) <= 1 /\ (isProcessing <=> Len(passes) = 1))
  /\ [][\A pdfFound \in BOOLEAN :
          (isProcessing /\ (\/ IntervalFires(pdfFound)
                            \/ TimeoutFires(pdfFound)
                            \/ CheckNow(pdfFound)))
          => /\ UNCHANGED <<schedDb, file, isProcessing, lastPass>>
             /\ Len(passes') = Len(passes)
             /\ \A p \in 1..Len(passes) :
                  passes'[p] = [passes[p] EXCEPT !.skipped = TRUE]]_vars

\* a pass is suspended and a call of checkAndSend was dropped meanwhile
C2_Witness ==
  \E p \in 1..Len(passes) : passes[p].skipped /\ passes[p].pc \in {"send", "sleep"}

\* C3: a payment call that sets paid=true on an invoice that is already
\* paid, or that sets paid=false, adds no invoice, allocates no number and
\* starts no duplication.
C3_DuplicatesOnlyOnEdge ==
  [][\A id \in RequestIds, paid \in BOOLEAN :
       LET k == getInvoiceById(Invoices, id)
       IN  (k # 0 /\ (~paid \/ Invoices[k].paid) /\ Payment(id, paid))
           => /\ db' = db
              /\ Len(heap') = Len(heap)
              /\ counter' = counter
              /\ pending' = pending]_vars

\* the source was marked paid again a day after its successor was created,
\* and still only one number has been allocated
C3_Witness ==
  /\ counter = 1 /\ pending = << >> /\ Len(db) = 2
  /\ Invoices[1].paid /\ Invoices[1].paidAt = toISOString(StartDay + 1)
  /\ Invoices[2].invoiceNumber = padStart3(1)
  /\ Invoices[2].createdAt = toISOString(StartDay)

\* lexicographic order of ISO dates
IsoLE(a, b) ==
  \/ a[1] < b[1]
  \/ a[1] = b[1] /\ a[2] < b[2]
  \/ a[1] = b[1] /\ a[2] = b[2] /\ a[3] <= b[3]

Range(seq) == { seq[k] : k \in 1..Len(seq) }

\* C4: getInvoicesForAutoSend returns, in store order and once each, exactly
\* the invoices with autoSendEnabled = true, nextSendDate set and
\* nextSendDate <= now.
C4_DueSetExact ==
  \A invoices \in {schedDb, Invoices} :
    LET due == getInvoicesForAutoSend(invoices, now)
    IN  /\ Range(due) =
             { k \in 1..Len(invoices) :
                 /\ invoices[k].autoSendEnabled = TRUE
                 /\ invoices[k].nextSendDate # NULL
                 /\ IsoLE(invoices[k].nextSendDate, toISOString(now)) }
        /\ \A x, y \in 1..Len(due) : x < y => due[x] < due[y]

\* a pass is running whose batch, taken from a store with an invoice due
\* exactly now, one due tomorrow and one switched off with a past date,
\* holds the first and neither of the others
C4_Witness ==
  \E p \in 1..Len(passes), x, y, z \in 1..Len(schedDb) :
    /\ schedDb[x].autoSendEnabled /\ schedDb[x].lastSentAt = NULL
    /\ schedDb[x].nextSendDate = toISOString(now)
    /\ x \in Range(passes[p].invoices)
    /\ schedDb[y].autoSendEnabled
    /\ schedDb[y].nextSendDate = toISOString(now + 1)
    /\ y \notin Range(passes[p].invoices)
    /\ ~schedDb[z].autoSendEnabled
    /\ schedDb[z].nextSendDate # NULL
    /\ IsoLE(schedDb[z].nextSendDate, toISOString(now))
    /\ z \notin Range(passes[p].invoices)

\* the same day of the following calendar month, clamped to its last day
NextCalendarMonth(s) ==
  LET y == IF s[2] = 12 THEN s[1] + 1 ELSE s[1]
      m == IF s[2] = 12 THEN 1 ELSE s[2] + 1
      last == DaysInMonth(y, m - 1)
  IN  <<y, m, IF s[3] > last THEN last ELSE s[3]>>

\* C5: whenever the scheduler's store moves an invoice's nextSendDate, the
\* new date is the same day of the following calendar month, clamped to the
\* length of that month.
C5_NextMonthClamped ==
  [][\A k \in 1..Len(schedDb) :
       schedDb'[k].nextSendDate # schedDb[k].nextSendDate
       => schedDb'[k].nextSendDate = NextCalendarMonth(schedDb[k].nextSendDate)]_vars

\* C6: a send that fails leaves the invoice's record unchanged and due; a
\* pass that starts takes every due invoice of the scheduler's store into
\* its batch, and a pass that ended has attempted every invoice of its batch.
C6_FailedSendStaysDue ==
  /\ [][\A p \in 1..Len(passes), pdfFound \in BOOLEAN,
           result \in ChannelResults \ {"ok"} :
          SendSettles(p, result, pdfFound)
          => LET k == passes[p].invoices[passes[p].i + 1]
             IN  /\ schedDb'[k] = schedDb[k]
                 /\ schedDb'[k].autoSendEnabled
                 /\ IsoLE(schedDb'[k].nextSendDate, toISOString(now'))]_vars
  /\ [][\A pdfFound \in BOOLEAN :
          (~isProcessing /\ (\/ IntervalFires(pdfFound)
                             \/ TimeoutFires(pdfFound)
                             \/ CheckNow(pdfFound)))
          => LET batch == IF Len(passes') > 0 THEN passes'[1].invoices
                          ELSE lastPass'.invoices
             IN  \A k \in 1..Len(schedDb) :
                   (/\ schedDb[k].autoSendEnabled
                    /\ schedDb[k].nextSendDate # NULL
                    /\ IsoLE(schedDb[k].nextSendDate, toISOString(now)))
                   => k \in Range(batch)]_vars
  /\ [](lastPass.ended => Len(lastPass.results) = Len(lastPass.invoices))

\* a pass ended in which a send failed in the channel: the invoice was never
\* sent and is still due
C6_Witness ==
  /\ lastPass.ended
  /\ \E j \in 1..Len(lastPass.results) :
       /\ lastPass.results[j] = "DeliveryFailure"
       /\ schedDb[lastPass.invoices[j]].lastSentAt = NULL
       /\ lastPass.invoices[j] \in Range(getInvoicesForAutoSend(schedDb, now))

\* C7: a pass over n >= 1 invoices sleeps exactly n-1 times, once after
\* each invoice but the last whatever the result of that invoice; a pass
\* over an empty due set does not sleep.
C7_PacingDelays ==
  /\ lastPass.ended =>
       lastPass.delays = (IF Len(lastPass.invoices) >= 1
                          THEN Len(lastPass.invoices) - 1 ELSE 0)
  /\ \A p \in 1..Len(passes) :
       /\ passes[p].pc = "send" =>
            /\ passes[p].delays = passes[p].i
            /\ Len(passes[p].results) = passes[p].i
       /\ passes[p].pc = "sleep" =>
            /\ passes[p].delays = passes[p].i + 1
            /\ Len(passes[p].results) = passes[p].i + 1
            /\ passes[p].i + 1 < Len(passes[p].invoices)

\* a pass over three invoices ended, the second of them failed, and the
\* pass slept twice
C7_Witness ==
  /\ lastPass.ended
  /\ Len(lastPass.invoices) = 3
  /\ lastPass.results[1] = "sent"
  /\ lastPass.results[2] # "sent"
  /\ lastPass.results[3] = "sent"
  /\ lastPass.delays = 2

\* C8: a payment call that starts the duplication leaves the source paid
\* with paidAt set; when the document generation then fails, the handler
\* changes no invoice of the store and answers success with a warning.
C8_PaymentSurvivesDuplicateError ==
  /\ [][\A id \in RequestIds :
          LET k == getInvoiceById(Invoices, id)
          IN  (k # 0 /\ Payment(id, TRUE) /\ Len(pending') > Len(pending))
              => /\ heap'[db[k]].paid
                 /\ heap'[db[k]].paidAt = toISOString(now)]_vars
  /\ [][\A p \in 1..Len(pending) :
          PaymentDuplicateError(p)
          => /\ db' = db
             /\ Deref(db', heap') = Invoices
             /\ file' = file
             /\ resp'.status = 200 /\ resp'.success /\ resp'.warning
             /\ InStore(pending[p].invoice) /\ heap[pending[p].invoice].paid
                => /\ heap'[pending[p].invoice].paid
                   /\ heap'[pending[p].invoice].paidAt # NULL]_vars

\* the duplication failed: the answer carries the warning, the number was
\* consumed, and the only invoice of the store is paid
C8_Witness ==
  /\ resp.warning /\ resp.success
  /\ pending = << >> /\ counter = 1 /\ Len(db) = 1
  /\ Invoices[1].paid /\ Invoices[1].paidAt # NULL

\* C9: after a payment confirmation whose duplication succeeded, a source
\* that was armed has autoSendEnabled = false and nextSendDate = null.
C9_SourceDisarmedAndCleared ==
  [][\A p \in 1..Len(pending) :
       LET r == pending[p].invoice
       IN  (PaymentDuplicated(p) /\ InStore(r) /\ heap[r].autoSendEnabled)
           => /\ ~heap'[r].autoSendEnabled
              /\ heap'[r].nextSendDate = NULL]_vars

\* the discount of a record, null and undefined taken as the same absence
DiscountOf(inv) == IF Falsy(inv.discount) THEN NullDiscount ELSE inv.discount

\* C10: the successor stored by a successful payment confirmation is unpaid,
\* carries the number just allocated, the client, clientPhone, items,
\* discount, payment and amount of the source, is armed, and is due one
\* calendar month after the confirmation.
C10_SuccessorCopiesSource ==
  [][\A p \in 1..Len(pending) :
       LET r == pending[p].invoice
           new == heap'[Len(heap')]
       IN  (PaymentDuplicated(p) /\ InStore(r))
           => /\ Len(db') = Len(db) + 1
              /\ db'[Len(db')] = Len(heap')
              /\ ~new.paid /\ new.paidAt = NULL
              /\ new.invoiceNumber = pending[p].newInvoiceNumber
              /\ new.client = heap'[r].client
              /\ new.clientPhone = heap'[r].clientPhone
              /\ new.items = heap'[r].items
              /\ DiscountOf(new) = DiscountOf(heap'[r])
              /\ new.payment = heap'[r].payment
              /\ new.amount = heap'[r].amount
              /\ new.autoSendEnabled
              /\ new.nextSendDate = NextCalendarMonth(toISOString(now))]_vars

\* C11: a poll that starts a pass attempts every invoice that is due in the
\* record store as the request handlers wrote it, those armed or created
\* after the scheduler was started included.
C11_DueAttemptedAtPoll ==
  [][\A pdfFound \in BOOLEAN :
       (~isProcessing /\ IntervalFires(pdfFound))
       => LET batch == IF Len(passes') > 0 THEN passes'[1].invoices
                       ELSE lastPass'.invoices
          IN  \A k \in 1..Len(db) :
                (/\ Invoices[k].autoSendEnabled
                 /\ Invoices[k].nextSendDate # NULL
                 /\ IsoLE(Invoices[k].nextSendDate, toISOString(now)))
                => \E j \in Range(batch) : schedDb[j].id = Invoices[k].id]_vars

\* C12: while this.intervalId is null, that is before the first start() and
\* after every stop(), no call of checkAndSend made by a timer begins a pass.
C12_StoppedMeansNoTimerPass ==
  [][\A pdfFound \in BOOLEAN :
       (~intervalId /\ GuardOpen(isProcessing))
       => ~(IntervalFires(pdfFound) \/ TimeoutFires(pdfFound))]_vars

\* C13: a step in which a pass ends (its batch is done, the due set was
\* empty or the harness threw) leaves isProcessing false and the interval
\* armed; isProcessing is true only while a pass is suspended; and a tick
\* that finds no pass running starts a pass over the whole due set.
C13_PassEndReleasesGuard ==
  /\ [][(\/ Len(passes') < Len(passes)
         \/ (lastPass'.ended /\ lastPass' # lastPass)
         \/ HarnessThrows)
        => /\ ~isProcessing'
           /\ intervalId' /\ intervals' = intervals /\ intervals' > 0]_vars
  /\ [](passes = << >> => ~isProcessing)
  /\ [][\A pdfFound \in BOOLEAN :
          (passes = << >> /\ IntervalFires(pdfFound))
          => LET batch == IF Len(passes') > 0 THEN passes'[1].invoices
                          ELSE lastPass'.invoices
             IN  batch = getInvoicesForAutoSend(schedDb, now)]_vars

\* a pass is running whose batch still has to process an invoice that an
\* earlier pass sent: the earlier pass ended and the next tick ran a pass
C13_Witness ==
  /\ isProcessing /\ intervals > 0
  /\ \E p \in 1..Len(passes) :
       /\ passes[p].pc = "send"
       /\ \E j \in (passes[p].i + 1)..Len(passes[p].invoices) :
            schedDb[passes[p].invoices[j]].lastSentAt # NULL

\* C14: markAsPaid, markAsUnpaid, setAutoSend and updateNextSendDate with an
\* id that is not in the store change nothing; a payment request for such an
\* id is answered 404 and changes neither the store nor the counter; and a
\* request whose call of setAutoSend meets an id that is not in the store
\* does not answer plain success.
C14_NotFoundSurfaced ==
  [][/\ \A id \in RequestIds :
          getInvoiceById(Invoices, id) = 0
          => /\ markAsPaid(Invoices, id, now) = Invoices
             /\ markAsUnpaid(Invoices, id) = Invoices
             /\ updateNextSendDate(Invoices, id, now) = Invoices
             /\ \A enabled \in BOOLEAN, d \in DateInputs \cup {NULL} :
                  setAutoSend(Invoices, id, enabled, d) = Invoices
             /\ \A paid \in BOOLEAN :
                  Payment(id, paid)
                  => /\ resp'.status = 404 /\ ~resp'.success
                     /\ UNCHANGED <<heap, db, file, counter, pending>>
     /\ \A p \in 1..Len(pending) :
          LET invoice == heap[pending[p].invoice]
          IN  (/\ PaymentDuplicated(p)
               /\ invoice.autoSendEnabled
               /\ getInvoiceById(Invoices, invoice.id) = 0
               /\ invoice.id # IdOf(now))
              => ~(resp'.success /\ ~resp'.warning)]_vars

\* C15: a step in which a pass records a failure for an invoice (no phone,
\* no document, delivery failed) leaves that invoice's record as it was, and
\* a pass that has ended has a result for every invoice of its batch, the
\* ones after a failure included.
C15_InvoiceErrorIsLocal ==
  [][LET before == IF passes # << >> THEN passes[1].results ELSE << >>
         after == IF passes' # << >> THEN passes'[1] ELSE lastPass'
     IN  (passes # << >> \/ passes' # << >> \/ lastPass' # lastPass)
         => /\ \A j \in (Len(before) + 1)..Len(after.results) :
                 after.results[j] # "sent"
                 => schedDb'[after.invoices[j]] = schedDb[after.invoices[j]]
            /\ passes' = << >>
                 => Len(after.results) = Len(after.invoices)]_vars

\* a pass over three invoices ended: the first had no phone, the delivery of
\* the second failed, the third was sent; only the third was advanced
C15_Witness ==
  /\ lastPass.ended
  /\ lastPass.results = <<"MissingRecipient", "DeliveryFailure", "sent">>
  /\ schedDb[lastPass.invoices[1]].lastSentAt = NULL
  /\ schedDb[lastPass.invoices[2]].lastSentAt = NULL
  /\ schedDb[lastPass.invoices[3]].lastSentAt # NULL

\* C17: every number getNextInvoiceNumber returns, to the payment handler,
\* to the duplicate endpoint or to the counter endpoint, is greater than
\* every number it returned before.
C17_NumbersIncrease ==
  [][(\/ NextNumber
      \/ \E id \in RequestIds : DuplicateInvoice(id)
      \/ \E id \in RequestIds :
           Payment(id, TRUE) /\ Len(pending') > Len(pending))
     => \A m \in issued : counter' > m]_vars

\* the subtotal of an item list: the sum of quantity * price
RECURSIVE Subtotal(_)
Subtotal(items) ==
  IF items = << >> THEN 0
  ELSE items[1].quantity * items[1].price + Subtotal(Tail(items))

\* an amount is the subtotal minus the discount effect: the number nearest
\* to (100 * subtotal - subtotal * value) / 100 for a percent discount, to
\* subtotal - value for a fixed one
AmountMatches(inv) ==
  LET subtotal == Subtotal(inv.items)
      effect100 == IF inv.discount.type = "percent"
                   THEN subtotal * inv.discount.value
                   ELSE IF inv.discount.type = "fixed"
                        THEN 100 * inv.discount.value
                        ELSE 0
  IN  inv.amount = DivideNumber(100 * subtotal - effect100, 100)

ExampleItems == MapItems(<<Item("a", 2, 1000), Item("b", 5, 500)>>)

\* C18: every stored amount, whether stored at creation, at update or at
\* duplication, is the subtotal of its items minus subtotal * value / 100 for
\* a percent discount or minus value for a fixed one, negative results
\* included; the example items total 4500, 4050 under 10 percent and 3500
\* under a fixed discount of 1000.
C18_AmountFormula ==
  /\ \A k \in 1..Len(db) : AmountMatches(Invoices[k])
  /\ \A k \in 1..Len(file) : AmountMatches(file[k])
  /\ \A p \in 1..Len(pending) :
       AmountMatches([items |-> pending[p].items,
                      discount |-> pending[p].discount,
                      amount |-> pending[p].totalAmount])
  /\ SumAmounts(ExampleItems) = 4500
  /\ TotalAmount(ExampleItems, [type |-> "percent", value |-> 10])
       = NumberOf(4050)
  /\ TotalAmount(ExampleItems, [type |-> "fixed", value |-> 1000])
       = NumberOf(3500)

\* C19: a successful send is followed in the same step, before the loop goes
\* on, by one advance of that invoice and of no other: its nextSendDate moves
\* to the following calendar month counted from the stored date, its
\* lastSentAt becomes the time of the send.  The scheduler's store changes in
\* no other step, so advances and successful sends are equal in number, and
\* lastSentAt, empty at first, is set only by a successful send.
C19_SentThenAdvancedOnce ==
  /\ \A k \in 1..Len(schedDb) : schedDb[k].lastSentAt = NULL
  /\ [][\A p \in 1..Len(passes), pdfFound \in BOOLEAN :
          SendSettles(p, "ok", pdfFound)
          => LET k == passes[p].invoices[passes[p].i + 1]
             IN  /\ schedDb'[k].nextSendDate
                      = NextCalendarMonth(schedDb[k].nextSendDate)
                 /\ schedDb'[k].lastSentAt = toISOString(now)
                 /\ \A j \in 1..Len(schedDb) :
                      j # k => schedDb'[j] = schedDb[j]]_vars
  /\ [][schedDb' # schedDb
        => \E p \in 1..Len(passes), pdfFound \in BOOLEAN :
             SendSettles(p, "ok", pdfFound)]_vars

\* C20: a pass dispatches its batch, the list the due query returned when
\* the pass started, one invoice after another in the order of that list: at
\* most one send is in flight; when invoice i is being sent every earlier
\* invoice of the batch is settled and was followed by a pacing sleep; and a
\* send starts either as the first of a new pass or after the sleep that
\* followed the invoice before it.
C20_SendsSequential ==
  /\ [](Cardinality({ p \in 1..Len(passes) : passes[p].pc = "send" }) <= 1)
  /\ [](\A p \in 1..Len(passes) :
          passes[p].pc = "send"
          => /\ Len(passes[p].results) = passes[p].i
             /\ passes[p].delays = passes[p].i
             /\ passes[p].i < Len(passes[p].invoices))
  /\ [][\A p \in 1..Len(passes') :
          passes'[p].pc = "send"
          => IF p \in 1..Len(passes)
             THEN /\ passes'[p].invoices = passes[p].invoices
                  /\ \/ /\ passes[p].pc = "send"
                        /\ passes'[p].i = passes[p].i
                     \/ /\ passes[p].pc = "sleep"
                        /\ passes'[p].i = passes[p].i + 1
             ELSE /\ passes'[p].i = 0
                  /\ passes'[p].invoices
                       = getInvoicesForAutoSend(schedDb, now)]_vars

\* the second invoice of a batch of three is being sent: the first was sent
\* and advanced, the pass slept once, the third has not been touched
C20_Witness ==
  \E p \in 1..Len(passes) :
    /\ passes[p].pc = "send"
    /\ passes[p].i = 1
    /\ Len(passes[p].invoices) = 3
    /\ passes[p].results = <<"sent">>
    /\ passes[p].delays = 1
    /\ schedDb[passes[p].invoices[1]].lastSentAt # NULL
    /\ schedDb[passes[p].invoices[2]].lastSentAt = NULL
    /\ schedDb[passes[p].invoices[3]].lastSentAt = NULL

\* C21: right after a successful send and its advance the invoice's
\* nextSendDate is later than the time of the send, so the invoice is not due
\* at the next poll, whatever date it was armed for.
C21_AdvancedPastDispatch ==
  [][\A p \in 1..Len(passes), pdfFound \in BOOLEAN :
       SendSettles(p, "ok", pdfFound)
       => LET k == passes[p].invoices[passes[p].i + 1]
          IN  /\ schedDb'[k].nextSendDate # NULL
              /\ ParseDate(schedDb'[k].nextSendDate) > now
              /\ ~IsDue(schedDb'[k], now')]_vars

\* C22: a pass that starts does not send an invoice that a completed
\* payment confirmation has duplicated and disarmed, as long as nobody armed
\* it again: the send such a pass starts is never for one of these sources.
C22_PaidSourceNotSentAgain ==
  [][\A pdfFound \in BOOLEAN :
       (/\ GuardOpen(isProcessing)
        /\ \/ IntervalFires(pdfFound)
           \/ TimeoutFires(pdfFound)
           \/ CheckNow(pdfFound))
       => \A p \in 1..Len(passes') :
            passes'[p].pc = "send"
            => schedDb[passes'[p].invoices[passes'[p].i + 1]].id
                 \notin retired]_vars

\* C23: asking for the status, and the due query a pass starts with, change
\* neither an invoice nor the order or membership of a store nor the
\* scheduler's flag and timers; the status answers isProcessing exactly when
\* a pass is running, and as its count the number of invoices that are armed
\* and due at that moment.
C23_StatusIsPureRead ==
  /\ [][GetStatus
        => /\ UNCHANGED <<schedDb, file, heap, db, isProcessing, intervalId,
                          intervals, timeouts, passes, lastPass>>
           /\ status'.isProcessing = (Len(passes) > 0)
           /\ status'.isRunning = intervalId
           /\ status'.upcomingInvoices
                = Cardinality({ k \in 1..Len(schedDb) :
                                 /\ schedDb[k].autoSendEnabled
                                 /\ schedDb[k].nextSendDate # NULL
                                 /\ IsoLE(schedDb[k].nextSendDate,
                                          toISOString(now)) })]_vars
  /\ [][\A pdfFound \in BOOLEAN :
          (IntervalFires(pdfFound) \/ TimeoutFires(pdfFound))
          => UNCHANGED <<schedDb, file, heap, db, intervalId, intervals>>]_vars

\* the status was asked for while a pass over two due invoices was asleep
\* between them
C23_Witness ==
  /\ status.isProcessing
  /\ status.upcomingInvoices = 2
  /\ Len(passes) = 1
  /\ passes[1].pc = "sleep"
  /\ status = getStatus

\* C24: a payment call that does not change the status of the invoice, paid
\* on a paid one or unpaid on an unpaid one, leaves every field of the record
\* as it was, paidAt included; unpaid on a paid invoice changes paid and
\* paidAt of that record and nothing else, and draws no number and starts no
\* duplication.
C24_SameStatusIsNoOp ==
  [][\A id \in RequestIds, paid \in BOOLEAN :
       LET k == getInvoiceById(Invoices, id)
       IN  (k # 0 /\ Payment(id, paid))
           => /\ Invoices[k].paid = paid => heap'[db[k]] = Invoices[k]
              /\ (Invoices[k].paid /\ ~paid)
                 => /\ heap'[db[k]] = [Invoices[k] EXCEPT !.paid = FALSE,
                                                          !.paidAt = NULL]
                    /\ UNCHANGED <<db, counter, issued, pending>>
                    /\ \A j \in 1..Len(db) :
                         j # k => heap'[db[j]] = Invoices[j]]_vars

\* C25: marking paid or unpaid, setAutoSend and the advance of nextSendDate
\* for one invoice leave every other invoice of the store as it was, and no
\* step changes the expenses of an invoice that stays in the store; the
\* successor of a duplication starts with no expenses and the source keeps
\* its own.
C25_FrameOfStoreOperations ==
  [][/\ \A k \in 1..Len(db), j \in 1..Len(db') :
          db'[j] = db[k] => heap'[db'[j]].expenses = Invoices[k].expenses
     /\ \A k \in 1..Len(schedDb) : schedDb'[k].expenses = schedDb[k].expenses
     /\ \A p \in 1..Len(pending) :
          PaymentDuplicated(p) => heap'[db'[Len(db')]].expenses = << >>
     /\ \A k \in 1..Len(db) :
          (\/ \E paid \in BOOLEAN : Payment(Invoices[k].id, paid)
           \/ \E enabled \in BOOLEAN, nextSendDate \in DateInputs \cup {NULL} :
                SetAutoSend(Invoices[k].id, enabled, nextSendDate))
          => /\ db' = db
             /\ \A j \in 1..Len(db) : j # k => heap'[db[j]] = Invoices[j]
             /\ schedDb' = schedDb
     /\ \A p \in 1..Len(passes) :
          (\E result \in ChannelResults, pdfFound \in BOOLEAN :
             SendSettles(p, result, pdfFound))
          => /\ \A j \in 1..Len(schedDb) :
                  j # passes[p].invoices[passes[p].i + 1]
                  => schedDb'[j] = schedDb[j]
             /\ heap' = heap]_vars

\* C26: no two invoices of the store have the same id, whatever the creations
\* that added them, and an invoice that stays in the store keeps its id.
C26_UniqueImmutableIds ==
  [][/\ \A j, k \in 1..Len(db') :
          j # k => heap'[db'[j]].id # heap'[db'[k]].id
     /\ \A j \in 1..Len(db), k \in 1..Len(db') :
          db'[k] = db[j] => heap'[db'[k]].id = Invoices[j].id]_vars

\* the recipient the specification describes for a stored phone: non-digits
\* stripped, a leading 8 replaced by 7, otherwise 7 put in front of a number
\* that does not start with 7
Recipient(stored) ==
  LET digits == SelectSeq(stored, LAMBDA c : c \in Digits)
  IN  IF digits # << >> /\ Head(digits) = "8" THEN <<"7">> \o Tail(digits)
      ELSE IF digits # << >> /\ Head(digits) = "7" THEN digits
      ELSE <<"7">> \o digits

\* C27: the recipient handed to the delivery channel is the stored phone
\* normalised: digits only, beginning with 7; the channel's own normalisation
\* leaves it as it is, and so does a second normalisation by the scheduler;
\* an invoice without a phone fails with MissingRecipient, whether or not
\* its document exists, and no send is started for it.
C27_RecipientNormalized ==
  [][/\ \A p \in 1..Len(passes') :
          passes'[p].pc = "send"
          => LET a == passes'[p]
                 stored == schedDb'[a.invoices[a.i + 1]].clientPhone
             IN  /\ stored # << >>
                 /\ a.phone = Recipient(stored)
                 /\ \A i \in 1..Len(a.phone) : a.phone[i] \in Digits
                 /\ Len(a.phone) > 0 /\ a.phone[1] = "7"
                 /\ cleanPhone(a.phone) = a.phone
                 /\ phoneOf(a.phone) = a.phone
     /\ \A pdfFound \in BOOLEAN :
          (/\ IntervalFires(pdfFound)
           /\ GuardOpen(isProcessing)
           /\ \E k \in 1..Len(schedDb) :
                IsDue(schedDb[k], now) /\ schedDb[k].clientPhone = << >>)
          => /\ passes' = << >>
             /\ lastPass'.results = <<"MissingRecipient">>
             /\ UNCHANGED <<schedDb, file>>]_vars

\* a send is in flight to 79 for the stored phone "8 9"
C27_Witness ==
  /\ Len(passes) = 1
  /\ passes[1].pc = "send"
  /\ schedDb[passes[1].invoices[1]].clientPhone = <<"8", " ", "9">>
  /\ passes[1].phone = <<"7", "9">>

\* C28: every payment call that takes the invoice from unpaid to paid starts
\* one duplication and no other call starts one; a duplication whose document
\* was generated adds exactly one successor, armed for auto-send, and one
\* whose document failed adds none: paid, unpaid and paid again gives a
\* second successor.
C28_SuccessorPerTransition ==
  [][/\ \A paid \in BOOLEAN :
          Payment(Invoices[1].id, paid)
          => /\ db' = db
             /\ IF paid /\ ~Invoices[1].paid
                THEN /\ Len(pending') = Len(pending) + 1
                     /\ pending'[Len(pending')].invoice = db[1]
                     /\ counter' = counter + 1
                ELSE pending' = pending /\ counter' = counter
     /\ \A p \in 1..Len(pending) :
          PaymentDuplicatedWithin(p, MaxToggled)
          => /\ Len(db') = Len(db) + 1
             /\ SubSeq(db', 1, Len(db)) = db
             /\ Len(pending') = Len(pending) - 1
             /\ LET new == heap'[db'[Len(db')]]
                IN  /\ new.autoSendEnabled
                    /\ new.nextSendDate = NextMonthFrom(now)
                    /\ new.invoiceNumber = pending[p].newInvoiceNumber
                    /\ ~new.paid
     /\ \A p \in 1..Len(pending) :
          PaymentDuplicateError(p)
          => db' = db /\ Len(pending') = Len(pending) - 1
     /\ (Len(db') # Len(db))
        => \E p \in 1..Len(pending) : PaymentDuplicatedWithin(p, MaxToggled)
     /\ Len(db') - 1 + Len(pending') <= counter']_vars

\* the invoice was paid, unpaid and paid again, and has two armed successors
C28_Witness ==
  /\ Len(db) = 3
  /\ counter = 2
  /\ Invoices[1].paid
  /\ Invoices[2].autoSendEnabled /\ Invoices[2].invoiceNumber = padStart3(1)
  /\ Invoices[3].autoSendEnabled /\ Invoices[3].invoiceNumber = padStart3(2)
  /\ pending = << >>

\* C29: a duplication whose document generation fails adds no invoice and
\* leaves autoSendEnabled and nextSendDate of the source as they were before
\* the payment call; what remains of the call is the payment status of the
\* source and the number it drew.
C29_FailedDuplicationLeavesNoTrace ==
  [][/\ (Payment(Invoices[1].id, TRUE) /\ Len(pending') > Len(pending))
        => /\ db' = db
           /\ heap'[db[1]] = [Invoices[1] EXCEPT !.paid = TRUE,
                                                 !.paidAt = toISOString(now)]
           /\ counter' = counter + 1
           /\ issued' = issued \cup {counter + 1}
     /\ \A p \in 1..Len(pending) :
          PaymentDuplicateError(p)
          => /\ db' = db
             /\ \A k \in 1..Len(db) : heap'[db[k]] = Invoices[k]
             /\ file' = file
             /\ schedDb' = schedDb
             /\ counter' = counter
             /\ issued' = issued
             /\ retired' = retired]_vars

\* the duplication of the armed invoice failed: it is paid and still armed
\* for its date, it has no successor, and number 1 is used up
C29_Witness ==
  /\ resp.warning
  /\ pending = << >>
  /\ Len(db) = 1
  /\ Invoices[1].paid
  /\ Invoices[1].autoSendEnabled
  /\ Invoices[1].nextSendDate # NULL
  /\ counter = 1 /\ issued = {1}

\* C30: when every call of the delivery channel settles, every pass ends and
\* isProcessing becomes false again; and across every step that leaves a
\* send unsettled, isProcessing stays true, nothing is sent or advanced, and
\* a call of checkAndSend by a timer or by check-now returns at the guard.
C30_PassEndsUnlessSendHangs ==
  /\ isProcessing ~> ~isProcessing
  /\ [][\A q \in 1..Len(passes) :
          (/\ passes[q].pc = "send"
           /\ q <= Len(passes')
           /\ passes'[q].pc = "send"
           /\ passes'[q].i = passes[q].i
           /\ passes'[q].results = passes[q].results)
          => /\ isProcessing /\ isProcessing'
             /\ schedDb' = schedDb
             /\ file' = file
             /\ Len(passes') = Len(passes)
             /\ lastPass' = lastPass
             /\ \A pdfFound \in BOOLEAN :
                  (\/ IntervalFires(pdfFound) \/ TimeoutFires(pdfFound)
                   \/ CheckNow(pdfFound))
                  => passes'[q].skipped]_vars

\* the send of the second invoice of a batch is in flight and a later call
\* of checkAndSend was dropped at the guard
C30_Witness ==
  /\ isProcessing
  /\ Len(passes) = 1
  /\ passes[1].pc = "send"
  /\ passes[1].i = 1
  /\ passes[1].skipped

\* C16: the request handlers and the scheduler read one store: what the
\* handlers hold, what the scheduler holds and what is persisted are the same
\* invoices at all times.
C16_OneStore == file = Invoices /\ schedDb = Invoices

====
